---- MODULE Spec2Model ----
(***************************************************************************)
(* A model of the two scripts of the NearbyPlaces repository:              *)
(*   NearbyPlaces.py  - GooglePlacesNearbySearch (search_nearby,           *)
(*                      format_place_info)                                 *)
(*   jsontoexcel.py   - MultipleJSONToSingleExcelConverter                 *)
(*                                                                         *)
(* Encoding of Python values.  An optional value (None or a value) is a    *)
(* sequence of length at most one: <<>> is None (or an absent JSON key),   *)
(* <<v>> is the value v.  A JSON value that is compared with values of     *)
(* other types is a tagged pair <<tag, payload>>.                          *)
(***************************************************************************)
EXTENDS Integers, Sequences, FiniteSets, TLC

VARIABLES
    \* ---- GooglePlacesNearbySearch.search_nearby ----
    pc,               \* position of the one search_nearby call
    params,           \* the params dict (a function on the keys it holds)
    all_results,      \* the accumulator
    next_page_token,  \* None or the token of the last response
    trace,            \* what the call did so far: requests, sleeps, responses
    \* ---- GooglePlacesNearbySearch.format_place_info ----
    fpc,              \* position of the one format_place_info call
    place,            \* the raw record handed to format_place_info
    formatted,        \* None or the mapping format_place_info returned
    \* ---- MultipleJSONToSingleExcelConverter ----
    fs,               \* which of the modelled file systems the script runs on
    json_data,        \* insertion-ordered dict: sequence of <<stem, document>>
    combined_df,      \* None or the combined table
    written,          \* the output files written so far, by name
    last,             \* the last converter call: operation, result, counts printed
    zero_dir_run      \* history: the calls so far are one load_from_directory
                      \* that matched no file, then only combine and save calls

searchVars == <<pc, params, all_results, next_page_token, trace>>
formatVars == <<fpc, place, formatted>>
convVars == <<fs, json_data, combined_df, written, last, zero_dir_run>>
vars == <<pc, params, all_results, next_page_token, trace, fpc, place, formatted,
          fs, json_data, combined_df, written, last, zero_dir_run>>

(***************************************************************************)
(* Bounds of the model.                                                    *)
(***************************************************************************)
MaxPages == 3      \* requests one search_nearby call may issue in the model
MaxPhotos == 1     \* length of a place record's photos list
MaxPaths == 3      \* length of the list given to load_multiple_json_files

(***************************************************************************)
(* Python values.                                                          *)
(***************************************************************************)
None == <<>>
Some(v) == <<v>>
\* bool(x) of an optional string: None and "" are falsy
Truthy(opt) == opt # None /\ opt[1] # ""

(***************************************************************************)
(* search_nearby: the arguments the model calls it with.                   *)
(***************************************************************************)
DefaultRadius == 2650
SleepSeconds == 2

SearchArgs ==
    { \* every optional argument left at its default
      [latitude |-> 47, longitude |-> -122, radius |-> DefaultRadius,
       place_type |-> None, keyword |-> None,
       min_price |-> None, max_price |-> None, open_now |-> FALSE],
      \* every optional argument given
      [latitude |-> 47, longitude |-> -122, radius |-> 800,
       place_type |-> Some("cafe"), keyword |-> Some("pizza"),
       min_price |-> Some(1), max_price |-> Some(4), open_now |-> TRUE],
      \* arguments that are given but falsy
      [latitude |-> 0, longitude |-> 0, radius |-> 800,
       place_type |-> Some(""), keyword |-> Some(""),
       min_price |-> Some(0), max_price |-> None, open_now |-> FALSE] }

ApiKey == "KEY"

\* params[k] = v when cond, nothing otherwise
Entry(cond, k, v) == IF cond THEN k :> v ELSE <<>>

BuildParams(a) ==
    [location |-> <<a.latitude, a.longitude>>, radius |-> a.radius, key |-> ApiKey]
    @@ Entry(Truthy(a.place_type), "type", a.place_type[1])
    @@ Entry(Truthy(a.keyword), "keyword", a.keyword[1])
    @@ Entry(a.min_price # None, "minprice", a.min_price[1])
    @@ Entry(a.max_price # None, "maxprice", a.max_price[1])
    @@ Entry(a.open_now, "opennow", "true")

(***************************************************************************)
(* What one HTTP GET can come back with.                                   *)
(*   transport : requests.get or raise_for_status raises RequestException  *)
(*   badjson   : response.json() raises a JSON decode error                *)
(*   nonobject : the body is valid JSON but not an object (a list)         *)
(*   object    : the body is a JSON object; status, results and            *)
(*               next_page_token are each absent (None) or present         *)
(***************************************************************************)
Statuses == {"OK", "ZERO_RESULTS", "REQUEST_DENIED"}
ResultPages == {<<"a">>, <<"b", "c">>}
Tokens == {"", "t1", "t2"}

Opt(S) == {None} \cup {Some(v) : v \in S}

NoBody(k) == [kind |-> k, status |-> None, results |-> None, next_page_token |-> None]

Responses ==
    {NoBody("transport"), NoBody("badjson"), NoBody("nonobject"), NoBody("object")}
    \cup [kind : {"object"}, status : {Some(s) : s \in Statuses},
          results : Opt(ResultPages), next_page_token : Opt(Tokens)]

(***************************************************************************)
(* search_nearby, one action per step of its loop.                         *)
(***************************************************************************)
Requested == SelectSeq(trace, LAMBDA e : e.e = "request")
Slept == SelectSeq(trace, LAMBDA e : e.e = "sleep")
Received == SelectSeq(trace, LAMBDA e : e.e = "response")

Event(kind, p, r, s) == [e |-> kind, params |-> p, r |-> r, seconds |-> s]

\* lines 43-63: build params, empty accumulator, no token
search_nearby(a) ==
    /\ pc = "idle"
    /\ pc' = "top"
    /\ params' = BuildParams(a)
    /\ all_results' = <<>>
    /\ next_page_token' = None
    /\ UNCHANGED <<trace, formatVars, convVars>>

\* lines 67-70: attach the token and sleep, when there is a token
UsePageToken(tok) == Truthy(tok)

\* LoopTop with the time.sleep(2) of line 70 left out
LoopTop_NoSleep ==
    /\ pc = "top"
    /\ pc' = "send"
    /\ IF UsePageToken(next_page_token)
       THEN params' = ("pagetoken" :> next_page_token[1]) @@ params
       ELSE UNCHANGED params
    /\ UNCHANGED <<trace, all_results, next_page_token, formatVars, convVars>>

\* LoopTop that sets pagetoken only when params holds none yet
LoopTop_StaleToken ==
    /\ pc = "top"
    /\ pc' = "send"
    /\ IF UsePageToken(next_page_token)
       THEN /\ params' = params @@ ("pagetoken" :> next_page_token[1])
            /\ trace' = Append(trace, Event("sleep", <<>>, <<>>, SleepSeconds))
       ELSE UNCHANGED <<params, trace>>
    /\ UNCHANGED <<all_results, next_page_token, formatVars, convVars>>

LoopTop ==
    /\ pc = "top"
    /\ pc' = "send"
    /\ IF UsePageToken(next_page_token)
       THEN /\ params' = ("pagetoken" :> next_page_token[1]) @@ params
            /\ trace' = Append(trace, Event("sleep", <<>>, <<>>, SleepSeconds))
       ELSE UNCHANGED <<params, trace>>
    /\ UNCHANGED <<all_results, next_page_token, formatVars, convVars>>

\* line 74: requests.get(self.base_url, params=params)
SendRequest ==
    /\ pc = "send"
    /\ Len(Requested) < MaxPages
    /\ pc' = "wait"
    /\ trace' = Append(trace, Event("request", params, <<>>, 0))
    /\ UNCHANGED <<params, all_results, next_page_token, formatVars, convVars>>

\* a status check that accepts OK alone
IsApiError_OkOnly(status) == status # "OK"

\* line 80: neither OK nor ZERO_RESULTS
IsApiError(status) == status # "OK" /\ status # "ZERO_RESULTS"

\* lines 87-88: results are added when the key is present
Extended(acc, r) == IF r.results # None THEN acc \o r.results[1] ELSE acc

\* lines 92-94: the loop goes on when the token is truthy
MorePages(tok) == Truthy(tok)

\* Receive with lines 87-88 moved before the status check of line 80
Receive_ExtendFirst(r) ==
    /\ pc = "wait"
    /\ trace' = Append(trace, Event("response", <<>>, r, 0))
    /\ UNCHANGED <<params, formatVars, convVars>>
    /\ CASE r.kind \in {"transport", "badjson"} ->
              /\ pc' = "returned"
              /\ UNCHANGED <<all_results, next_page_token>>
         [] r.kind = "nonobject" \/ (r.kind = "object" /\ r.status = None) ->
              /\ pc' = "raised"
              /\ UNCHANGED <<all_results, next_page_token>>
         [] OTHER ->
              /\ all_results' = Extended(all_results, r)
              /\ IF IsApiError(r.status[1])
                 THEN /\ pc' = "returned"
                      /\ UNCHANGED next_page_token
                 ELSE /\ next_page_token' = r.next_page_token
                      /\ pc' = IF MorePages(r.next_page_token) THEN "top" ELSE "returned"

\* lines 74-101: the response, as the try block and its handlers treat it
Receive(r) ==
    /\ pc = "wait"
    /\ trace' = Append(trace, Event("response", <<>>, r, 0))
    /\ UNCHANGED <<params, formatVars, convVars>>
    /\ CASE r.kind \in {"transport", "badjson"} ->
              \* except RequestException / JSONDecodeError: break
              /\ pc' = "returned"
              /\ UNCHANGED <<all_results, next_page_token>>
         [] r.kind = "nonobject" \/ (r.kind = "object" /\ r.status = None) ->
              \* data['status'] raises TypeError / KeyError: no handler
              /\ pc' = "raised"
              /\ UNCHANGED <<all_results, next_page_token>>
         [] OTHER ->
              IF IsApiError(r.status[1])
              THEN /\ pc' = "returned"
                   /\ UNCHANGED <<all_results, next_page_token>>
              ELSE /\ all_results' = Extended(all_results, r)
                   /\ next_page_token' = r.next_page_token
                   /\ pc' = IF MorePages(r.next_page_token) THEN "top" ELSE "returned"

SearchNext ==
    \/ \E a \in SearchArgs : search_nearby(a)
    \/ LoopTop
    \/ SendRequest
    \/ \E r \in Responses : Receive(r)

(***************************************************************************)
(* JSON values of a place record, tagged with their type.                  *)
(***************************************************************************)
Str(s) == <<"str", s>>
Num(n) == <<"num", n>>
Bool(b) == <<"bool", b>>
List(q) == <<"list", q>>
Obj(f) == <<"obj", f>>
Null == <<"null", 0>>

IsDict(v) == v[1] = "obj"
IsSized(v) == v[1] \in {"list", "str", "obj"}
EmptyDict == Obj(<<>>)

\* an optional key of a JSON object: absent, or present with a value of Vs
Field(k, Vs) == {<<>>} \cup {k :> v : v \in Vs}

PhotoLists == UNION {[1..n -> {"photo_ref"}] : n \in 0..MaxPhotos}
Locations ==
    {Obj(lat @@ lng) : lat \in Field("lat", {Num(47)}), lng \in Field("lng", {Num(-122)})}
Geometries == {Null} \cup {Obj(loc) : loc \in Field("location", Locations)}
OpeningHours == {Obj(o) : o \in Field("open_now", {Bool(TRUE), Bool(FALSE)})}

(***************************************************************************)
(* format_place_info (lines 105-129).                                      *)
(***************************************************************************)
\* dict.get(k, d) on a JSON object
Get_WrongDefault(o, k, d) == IF k \in DOMAIN o[2] THEN o[2][k] ELSE Str("N/A")

Get(o, k, d) == IF k \in DOMAIN o[2] THEN o[2][k] ELSE d

\* .get on a value that is no dict raises AttributeError, len() of a value
\* without a length raises TypeError
FormatRaises(p) ==
    \/ ~IsDict(Get(p, "geometry", EmptyDict))
    \/ ~IsDict(Get(Get(p, "geometry", EmptyDict), "location", EmptyDict))
    \/ ~IsDict(Get(p, "opening_hours", EmptyDict))
    \/ ~IsSized(Get(p, "photos", List(<<>>)))

PlaceInfo(p) ==
    [name |-> Get(p, "name", Str("N/A")),
     place_id |-> Get(p, "place_id", Str("N/A")),
     rating |-> Get(p, "rating", Str("N/A")),
     user_ratings_total |-> Get(p, "user_ratings_total", Num(0)),
     price_level |-> Get(p, "price_level", Str("N/A")),
     types |-> Get(p, "types", List(<<>>)),
     vicinity |-> Get(p, "vicinity", Str("N/A")),
     geometry |->
        [lat |-> Get(Get(Get(p, "geometry", EmptyDict), "location", EmptyDict),
                     "lat", Str("N/A")),
         lng |-> Get(Get(Get(p, "geometry", EmptyDict), "location", EmptyDict),
                     "lng", Str("N/A"))],
     open_now |-> Get(Get(p, "opening_hours", EmptyDict), "open_now", Str("Unknown")),
     photos |-> Bool(Len(Get(p, "photos", List(<<>>))[2]) > 0)]

format_place_info(p) ==
    /\ fpc = "idle"
    /\ place' = p
    /\ IF FormatRaises(p)
       THEN fpc' = "raised" /\ formatted' = None
       ELSE fpc' = "returned" /\ formatted' = Some(PlaceInfo(p))
    /\ UNCHANGED <<searchVars, convVars>>

FormatNext ==
    \E name \in Field("name", {Str("Cafe")}),
       place_id \in Field("place_id", {Str("id1")}),
       rating \in Field("rating", {Num(4)}),
       user_ratings_total \in Field("user_ratings_total", {Num(120)}),
       price_level \in Field("price_level", {Num(2)}),
       types \in Field("types", {List(<<"cafe", "food">>)}),
       vicinity \in Field("vicinity", {Str("1 Main St")}),
       geometry \in Field("geometry", Geometries),
       opening_hours \in Field("opening_hours", OpeningHours),
       photos \in Field("photos", {List(q) : q \in PhotoLists}) :
        format_place_info(Obj(name @@ place_id @@ rating @@ user_ratings_total
                              @@ price_level @@ types @@ vicinity @@ geometry
                              @@ opening_hours @@ photos))

(***************************************************************************)
(* jsontoexcel.py.  A loaded JSON document keeps the key order of its      *)
(* objects, which json.load and dict preserve: an object is                *)
(* Dict(<< <<key, value>>, ... >>).                                          *)
(***************************************************************************)
Dict(pairs) == <<"dict", pairs>>
NaN == <<"nan", 0>>

DocA == List(<<Dict(<< <<"x", Num(1)>> >>)>>)
DocB == List(<<Dict(<< <<"y", Num(2)>> >>)>>)
DocK == Dict(<< <<"k", List(<<Dict(<< <<"a", Num(1)>> >>), Dict(<< <<"a", Num(2)>> >>)>>)>> >>)
DocM == Dict(<< <<"m", Num(5)>>,
                <<"j", List(<<Dict(<< <<"b", Num(3)>>, <<"a", Null>> >>)>>)>>,
                <<"k", List(<<Dict(<< <<"a", Num(1)>> >>), Dict(<< <<"a", Num(2)>> >>)>>)>> >>)
DocC == Dict(<< <<"x", Num(7)>>, <<"z", Null>>, <<"p", Dict(<< <<"q", Num(1)>> >>)>> >>)
DocN == Num(42)
DocE == List(<<>>)

File(d, st, e) == [dir |-> d, stem |-> st, ext |-> e]
Ok(doc) == [state |-> "ok", doc |-> doc]
Broken(st) == [state |-> st, doc |-> Null]

\* the files of each modelled file system: a JSON document, a file that is
\* not JSON ("malformed"), a path with no file ("missing"), a file open()
\* fails on for another reason ("ioerror")
Files(f) ==
    CASE f = "merge" ->
            (File("d1", "a", "json") :> Ok(DocA)) @@
            (File("d1", "b", "json") :> Ok(DocB)) @@
            (File("d2", "a", "json") :> Ok(DocK)) @@
            (File("d2", "gone", "json") :> Broken("missing"))
      [] f = "faulty" ->
            (File("d1", "e", "json") :> Ok(DocE)) @@
            (File("d1", "bad", "json") :> Broken("malformed")) @@
            (File("d1", "gone", "json") :> Broken("missing")) @@
            (File("d2", "locked", "json") :> Broken("ioerror"))
      [] OTHER ->
            (File("d1", "m", "json") :> Ok(DocM)) @@
            (File("d1", "c", "json") :> Ok(DocC)) @@
            (File("d1", "n", "json") :> Ok(DocN))

FileSystems == {"merge", "faulty", "shapes"}
Dirs == {"d1", "d2", "d3"}
Patterns == {"*.json", "*.csv"}
OutputFiles == {"combined_data.xlsx"}

Range(q) == {q[i] : i \in 1..Len(q)}
\* the lists of at most MaxPaths different paths over a set of paths
PathLists(S) ==
    {q \in UNION {[1..n -> S] : n \in 0..MaxPaths} :
        \A i, j \in 1..Len(q) : i # j => q[i] # q[j]}
\* every order in which a set of paths can be listed
Orders(S) == {q \in [1..Cardinality(S) -> S] : Range(q) = S}

(***************************************************************************)
(* load_multiple_json_files (lines 16-36)                                  *)
(***************************************************************************)
\* Path(file_path).stem
Stem(path) == path.stem
\* open() and json.load() succeed
Loads(path) == Files(fs)[path].state = "ok"

\* self.json_data[filename] = data on the insertion-ordered dict
RECURSIVE SetItem(_, _, _)
SetItem(d, k, v) ==
    IF d = <<>> THEN << <<k, v>> >>
    ELSE IF Head(d)[1] = k THEN << <<k, v>> >> \o Tail(d)
    ELSE <<Head(d)>> \o SetItem(Tail(d), k, v)

\* the loop of lines 20-33 over the paths from i on; printed counts the
\* per-file lines it prints, one for each path it tried
\* (below: the loop leaving at the first path that fails)
RECURSIVE LoadFrom_StopAtFailure(_, _, _)
LoadFrom_StopAtFailure(paths, i, acc) ==
    IF i > Len(paths) THEN acc
    ELSE IF Loads(paths[i])
    THEN LoadFrom_StopAtFailure(paths, i + 1,
             [data |-> SetItem(acc.data, Stem(paths[i]), Files(fs)[paths[i]].doc),
              successful_loads |-> acc.successful_loads + 1,
              printed |-> acc.printed + 1])
    ELSE [acc EXCEPT !.printed = @ + 1]

RECURSIVE LoadFrom(_, _, _)
LoadFrom(paths, i, acc) ==
    IF i > Len(paths) THEN acc
    ELSE IF Loads(paths[i])
    THEN LoadFrom(paths, i + 1,
             [data |-> SetItem(acc.data, Stem(paths[i]), Files(fs)[paths[i]].doc),
              successful_loads |-> acc.successful_loads + 1,
              printed |-> acc.printed + 1])
    ELSE \* except FileNotFoundError / JSONDecodeError / Exception: print
         LoadFrom(paths, i + 1, [acc EXCEPT !.printed = @ + 1])

\* a finished call: its return value, the number of per-file lines and the
\* "Total files loaded" count it printed, the add_source_column it was given
Called(op, ret, tried, loaded, flag) ==
    [op |-> op, ret |-> ret, tried |-> tried, loaded |-> loaded, add_source |-> flag]

\* the effect of load_multiple_json_files(paths), called as op
LoadInto(op, paths) ==
    LET res == LoadFrom(paths, 1,
                        [data |-> json_data, successful_loads |-> 0, printed |-> 0])
    IN /\ json_data' = res.data
       /\ last' = Called(op, res.successful_loads > 0, res.printed,
                         res.successful_loads, FALSE)

load_multiple_json_files(paths) ==
    /\ LoadInto("load_multiple_json_files", paths)
    /\ zero_dir_run' = FALSE
    /\ UNCHANGED <<fs, combined_df, written, searchVars, formatVars>>

(***************************************************************************)
(* load_from_directory (lines 38-46)                                       *)
(***************************************************************************)
\* glob.glob(os.path.join(directory_path, pattern)): the files of the
\* directory whose name matches, in the order the directory lists them
Matches(path, pattern) == ("*." \o path.ext) = pattern
Glob(dir, pattern) ==
    {path \in DOMAIN Files(fs) :
        /\ path.dir = dir
        /\ Files(fs)[path].state # "missing"
        /\ Matches(path, pattern)}

load_from_directory(dir, pattern, json_files) ==
    /\ Range(json_files) = Glob(dir, pattern)
    /\ IF json_files = <<>>
       THEN /\ last' = Called("load_from_directory", FALSE, 0, 0, FALSE)
            /\ zero_dir_run' = (last.op = "none")
            /\ UNCHANGED json_data
       ELSE /\ LoadInto("load_from_directory", json_files)
            /\ zero_dir_run' = FALSE
    /\ UNCHANGED <<fs, combined_df, written, searchVars, formatVars>>

(***************************************************************************)
(* The pandas calls of combine_json_data.  A DataFrame is                  *)
(* [columns |-> sequence of names, rows |-> sequence of rows], a row being *)
(* a function from the column names to cells; NaN is the missing cell.     *)
(* Numbers are compared by value (pandas turns 1 into 1.0 in a column that *)
(* also holds NaN; 1.0 == 1).                                              *)
(***************************************************************************)
\* the names of cols, then those of keys that are new, in order
RECURSIVE AddNew(_, _)
AddNew(cols, keys) ==
    IF keys = <<>> THEN cols
    ELSE AddNew(IF Head(keys) \in Range(cols) THEN cols ELSE Append(cols, Head(keys)),
                Tail(keys))

\* json_normalize flattens a nested object into dotted column names
RECURSIVE Flatten(_, _)
Flatten(pairs, prefix) ==
    IF pairs = <<>> THEN <<>>
    ELSE LET k == prefix \o Head(pairs)[1]
             v == Head(pairs)[2]
         IN (IF v[1] = "dict" THEN Flatten(v[2], k \o ".") ELSE << <<k, v>> >>)
            \o Flatten(Tail(pairs), prefix)

Keys(rec) == [i \in 1..Len(rec) |-> rec[i][1]]
Lookup(rec, k) ==
    IF \E i \in 1..Len(rec) : rec[i][1] = k
    THEN rec[CHOOSE i \in 1..Len(rec) : rec[i][1] = k][2]
    ELSE NaN

RECURSIVE ColumnsOf(_)
ColumnsOf(recs) ==
    IF recs = <<>> THEN <<>>
    ELSE AddNew(ColumnsOf(SubSeq(recs, 1, Len(recs) - 1)), Keys(recs[Len(recs)]))

\* pd.json_normalize(items) for a list of objects
json_normalize(items) ==
    LET recs == [i \in 1..Len(items) |-> Flatten(items[i][2], "")]
        cols == ColumnsOf(recs)
    IN [columns |-> cols,
        rows |-> [i \in 1..Len(recs) |-> [c \in Range(cols) |-> Lookup(recs[i], c)]]]

\* df['source_file'] = filename
SetColumn(df, name, v) ==
    [columns |-> AddNew(df.columns, <<name>>),
     rows |-> [i \in 1..Len(df.rows) |-> (name :> v) @@ df.rows[i]]]

RECURSIVE AllColumns(_)
AllColumns(frames) ==
    IF frames = <<>> THEN <<>>
    ELSE AddNew(AllColumns(SubSeq(frames, 1, Len(frames) - 1)),
                frames[Len(frames)].columns)

RECURSIVE AllRows(_, _)
AllRows(frames, cols) ==
    IF frames = <<>> THEN <<>>
    ELSE [i \in 1..Len(Head(frames).rows) |->
            [c \in Range(cols) |->
                IF c \in DOMAIN Head(frames).rows[i]
                THEN Head(frames).rows[i][c] ELSE NaN]]
         \o AllRows(Tail(frames), cols)

\* pd.concat(all_dataframes, ignore_index=True, sort=False)
concat(frames) ==
    [columns |-> AllColumns(frames), rows |-> AllRows(frames, AllColumns(frames))]

\* a frame that leaves the missing cells as they are
fillna_Nothing(df, v) == df

\* df.fillna(v): NaN and None cells become v
fillna(df, v) ==
    [columns |-> df.columns,
     rows |-> [i \in 1..Len(df.rows) |->
                 [c \in DOMAIN df.rows[i] |->
                     IF df.rows[i][c] \in {NaN, Null} THEN v ELSE df.rows[i][c]]]]

(***************************************************************************)
(* combine_json_data (lines 48-104)                                        *)
(***************************************************************************)
IsList(v) == v[1] = "list"
IsDictDoc(v) == v[1] = "dict"
ListFields(doc) == SelectSeq(doc[2], LAMBDA kv : IsList(kv[2]))

\* lines 59-75 with the whole object always taken as one record
Normalized_WholeObject(doc) ==
    IF IsList(doc) THEN json_normalize(doc[2]) ELSE json_normalize(<<doc>>)

\* lines 59-75: which shapes make a frame, and the frame of such a document
Supported(doc) == IsList(doc) \/ IsDictDoc(doc)
Normalized(doc) ==
    IF IsList(doc) THEN json_normalize(doc[2])
    ELSE IF ListFields(doc) # <<>>
         THEN \* the first list-valued field, in key order
              json_normalize(Head(ListFields(doc))[2][2])
         ELSE json_normalize(<<doc>>)

\* lines 56-81 for one entry of json_data
FrameOf(entry, add_source_column) ==
    IF add_source_column
    THEN SetColumn(Normalized(entry[2]), "source_file", Str(entry[1]))
    ELSE Normalized(entry[2])

Frames(add_source_column) ==
    LET kept == SelectSeq(json_data, LAMBDA entry : Supported(entry[2]))
    IN [i \in 1..Len(kept) |-> FrameOf(kept[i], add_source_column)]

\* combine_json_data that answers an empty json_data with an empty table
combine_json_data_EmptyTable(add_source_column) ==
    /\ IF Frames(add_source_column) = <<>> /\ json_data # <<>>
       THEN /\ last' = Called("combine_json_data", FALSE, 0, 0, add_source_column)
            /\ UNCHANGED combined_df
       ELSE /\ combined_df' = Some(fillna(concat(Frames(add_source_column)), Str("")))
            /\ last' = Called("combine_json_data", TRUE, 0, 0, add_source_column)
    /\ UNCHANGED <<fs, json_data, written, zero_dir_run, searchVars, formatVars>>

combine_json_data(add_source_column) ==
    /\ IF json_data = <<>> \/ Frames(add_source_column) = <<>>
       THEN \* "No JSON data loaded" / "No data could be processed"
            /\ last' = Called("combine_json_data", FALSE, 0, 0, add_source_column)
            /\ UNCHANGED combined_df
       ELSE /\ combined_df' = Some(fillna(concat(Frames(add_source_column)), Str("")))
            /\ last' = Called("combine_json_data", TRUE, 0, 0, add_source_column)
    /\ UNCHANGED <<fs, json_data, written, zero_dir_run, searchVars, formatVars>>

(***************************************************************************)
(* save_to_excel_simple (lines 106-118), save_to_excel_styled (120-177).   *)
(* can_write: whether the write to output_file succeeds.                   *)
(***************************************************************************)
Sheet(df, styled) ==
    [styled |-> styled, header |-> df.columns, data_rows |-> Len(df.rows)]

Save(op, output_file, can_write, styled) ==
    /\ IF combined_df # None /\ can_write
       THEN /\ written' = (output_file :> Sheet(combined_df[1], styled)) @@ written
            /\ last' = Called(op, TRUE, 0, 0, FALSE)
       ELSE /\ last' = Called(op, FALSE, 0, 0, FALSE)
            /\ UNCHANGED written
    /\ UNCHANGED <<fs, json_data, combined_df, zero_dir_run, searchVars, formatVars>>

save_to_excel_simple(output_file, can_write) ==
    Save("save_to_excel_simple", output_file, can_write, FALSE)

save_to_excel_styled(output_file, can_write) ==
    Save("save_to_excel_styled", output_file, can_write, TRUE)

\* the loader alone
LoadNext ==
    \/ \E paths \in PathLists(DOMAIN Files(fs)) : load_multiple_json_files(paths)
    \/ \E dir \in Dirs, pattern \in Patterns :
          \E json_files \in Orders(Glob(dir, pattern)) :
              load_from_directory(dir, pattern, json_files)

ConvNext ==
    \/ \E paths \in PathLists(DOMAIN Files(fs)) : load_multiple_json_files(paths)
    \/ \E dir \in Dirs, pattern \in Patterns :
          \E json_files \in Orders(Glob(dir, pattern)) :
              load_from_directory(dir, pattern, json_files)
    \/ \E add_source_column \in BOOLEAN : combine_json_data(add_source_column)
    \/ \E output_file \in OutputFiles, can_write \in BOOLEAN :
          save_to_excel_simple(output_file, can_write)
    \/ \E output_file \in OutputFiles, can_write \in BOOLEAN :
          save_to_excel_styled(output_file, can_write)

SearchInit ==
    /\ pc = "idle"
    /\ params = <<>>
    /\ all_results = <<>>
    /\ next_page_token = None
    /\ trace = <<>>

FormatIdle == fpc = "idle" /\ place = EmptyDict /\ formatted = None
ConvIdle ==
    /\ json_data = <<>>
    /\ combined_df = None
    /\ written = <<>>
    /\ last = Called("none", FALSE, 0, 0, FALSE)
    /\ zero_dir_run = FALSE

Init == SearchInit /\ FormatIdle /\ ConvIdle /\ fs \in FileSystems

\* the two scripts share nothing: each is checked on its own
PlacesInit == SearchInit /\ FormatIdle /\ ConvIdle /\ fs = "merge"
SearchSpec == PlacesInit /\ [][SearchNext]_vars
FormatSpec == PlacesInit /\ [][FormatNext]_vars
ConvSpec == Init /\ [][ConvNext]_vars
LoadSpec == Init /\ [][LoadNext]_vars

Next == SearchNext \/ FormatNext \/ ConvNext
Spec == Init /\ [][Next]_vars

(***************************************************************************)
(* Claims about search_nearby.  They are stated over the trace of the      *)
(* call, in words of their own: what a successful response is, what a      *)
(* failure is, what the pages held.                                        *)
(***************************************************************************)
Resp(i) == Received[i].r
NumResp == Len(Received)

SuccessResp(r) == r.kind = "object" /\ r.status \in {Some("OK"), Some("ZERO_RESULTS")}
CarriesToken(r) == r.next_page_token \in {Some("t1"), Some("t2")}
PageResults(r) == IF r.results = None THEN <<>> ELSE r.results[1]

RECURSIVE PagesUpTo(_)
PagesUpTo(n) == IF n = 0 THEN <<>> ELSE PagesUpTo(n - 1) \o PageResults(Resp(n))

\* N successful responses with a token, then a successful one without
TokenChain ==
    /\ NumResp >= 1
    /\ \A i \in 1..(NumResp - 1) : SuccessResp(Resp(i)) /\ CarriesToken(Resp(i))
    /\ SuccessResp(Resp(NumResp)) /\ ~CarriesToken(Resp(NumResp))

\* C1: N consecutive successful responses that carry a token, followed by a
\* successful response without one, make search_nearby issue exactly N+1
\* requests, sleep the fixed 2 seconds exactly N times, and return.
C1_RequestsAndWaits ==
    TokenChain =>
        /\ pc = "returned"
        /\ Len(Requested) = NumResp
        /\ Len(Slept) = NumResp - 1
        /\ \A i \in 1..Len(Slept) : Slept[i].seconds = 2

C1_Witness ==
    /\ TokenChain
    /\ NumResp = 3
    /\ pc = "returned"

\* a failure of page k: transport, malformed body, or a status that is
\* neither OK nor ZERO_RESULTS
FailedResp(r) ==
    \/ r.kind \in {"transport", "badjson"}
    \/ /\ r.kind = "object"
       /\ r.status # None
       /\ r.status \notin {Some("OK"), Some("ZERO_RESULTS")}

\* C2: a failure on page k stops pagination at once: the failed response is
\* the last thing the call did, k requests were issued, and the list returned
\* is the concatenation of the results of pages 1..k-1, in page order.
C2_FailureStopsWithPartial ==
    (NumResp >= 1 /\ FailedResp(Resp(NumResp))) =>
        /\ pc = "returned"
        /\ trace[Len(trace)].e = "response"
        /\ Len(Requested) = NumResp
        /\ all_results = PagesUpTo(NumResp - 1)

C2_Witness ==
    /\ NumResp = 3
    /\ FailedResp(Resp(3))
    /\ Resp(3).results = Some(<<"a">>)
    /\ Resp(1).results = Some(<<"b", "c">>)
    /\ Resp(2).results = Some(<<"a">>)
    /\ all_results = <<"b", "c", "a">>
    /\ pc = "returned"

\* the step in which a response with status ZERO_RESULTS is handled
ZeroResultsStep ==
    /\ pc = "wait"
    /\ pc' # "wait"
    /\ Resp(NumResp)'.status = Some("ZERO_RESULTS")

\* C3 as stated: whatever a ZERO_RESULTS response contains, pagination stops
\* at it and the accumulator is what it was before the response.
C3_ZeroResultsAlwaysStops ==
    [][ZeroResultsStep => (pc' = "returned" /\ all_results' = all_results)]_vars

\* C3 as amended: a ZERO_RESULTS response is handled like an OK one: its
\* results array, if present, is appended to the accumulator, and pagination
\* stops at it exactly when it carries no non-empty continuation token; so
\* with no results and no token it stops with the accumulator unchanged.
C3_ZeroResultsLikeOk ==
    [][ZeroResultsStep =>
        LET r == Resp(NumResp)' IN
        /\ all_results' = all_results \o PageResults(r)
        /\ (pc' = "returned") <=> ~CarriesToken(r)
        /\ CarriesToken(r) => (pc' = "top" /\ next_page_token' = r.next_page_token)
        /\ (PageResults(r) = <<>> /\ ~CarriesToken(r)) =>
               (pc' = "returned" /\ all_results' = all_results)]_vars

C3_Witness ==
    /\ NumResp = 2
    /\ Resp(2).status = Some("ZERO_RESULTS")
    /\ Resp(2).results = Some(<<"a">>)
    /\ CarriesToken(Resp(2))
    /\ all_results = <<"b", "c", "a">>
    /\ pc = "top"

\* C4: no public operation ever raises to its caller.
C4_NeverRaises == pc # "raised"

\* every key of the request but the page token
FilterKeys == {"location", "radius", "key", "type", "keyword", "minprice",
               "maxprice", "opennow"}
SameFilters(p, q) ==
    \A k \in FilterKeys :
        /\ (k \in DOMAIN p) <=> (k \in DOMAIN q)
        /\ (k \in DOMAIN p) => p[k] = q[k]

FirstRequest == CHOOSE i \in 1..Len(trace) : trace[i].e = "request" /\
                    \A j \in 1..(i - 1) : trace[j].e # "request"

\* C10: the first request carries no pagetoken; every later request carries
\* exactly the token of the response just before it, comes right after the
\* 2-second wait that follows that response, and has the filters of the
\* first request.
C10_TokenAndFiltersCarried ==
    \A i \in 1..Len(trace) :
        trace[i].e = "request" =>
            IF i = FirstRequest
            THEN "pagetoken" \notin DOMAIN trace[i].params
            ELSE /\ i >= 3
                 /\ trace[i - 1].e = "sleep" /\ trace[i - 1].seconds = 2
                 /\ trace[i - 2].e = "response"
                 /\ "pagetoken" \in DOMAIN trace[i].params
                 /\ Some(trace[i].params["pagetoken"]) = trace[i - 2].r.next_page_token
                 /\ SameFilters(trace[i].params, trace[FirstRequest].params)

C10_Witness ==
    /\ Len(Requested) = 3
    /\ Requested[2].params["pagetoken"] = "t1"
    /\ Requested[3].params["pagetoken"] = "t2"
    /\ "keyword" \in DOMAIN Requested[3].params
    /\ "opennow" \in DOMAIN Requested[3].params

(***************************************************************************)
(* Claims about format_place_info.                                         *)
(***************************************************************************)
OutputKeys == {"name", "place_id", "rating", "user_ratings_total", "price_level",
               "types", "vicinity", "geometry", "open_now", "photos"}
CopiedKeys == {"name", "place_id", "rating", "user_ratings_total", "price_level",
               "types", "vicinity"}
Sentinel(k) ==
    CASE k = "user_ratings_total" -> Num(0)
      [] k = "types" -> List(<<>>)
      [] OTHER -> Str("N/A")

\* the record is a well-formed place record with some optional fields absent
OnlyAbsent(p) == "geometry" \in DOMAIN p[2] => p[2]["geometry"] # Null

HasCoord(d, c) ==
    /\ "geometry" \in DOMAIN d
    /\ "location" \in DOMAIN d["geometry"][2]
    /\ c \in DOMAIN d["geometry"][2]["location"][2]
HasOpenNow(d) ==
    /\ "opening_hours" \in DOMAIN d
    /\ "open_now" \in DOMAIN d["opening_hours"][2]

\* all of the output shape but the photos key
ShapeButPhotos(f, d) ==
    /\ DOMAIN f = OutputKeys
    /\ DOMAIN f.geometry = {"lat", "lng"}
    /\ \A k \in CopiedKeys : f[k] = IF k \in DOMAIN d THEN d[k] ELSE Sentinel(k)
    /\ \A c \in {"lat", "lng"} :
          f.geometry[c] = IF HasCoord(d, c)
                          THEN d["geometry"][2]["location"][2][c]
                          ELSE Str("N/A")
    /\ f.open_now = IF HasOpenNow(d) THEN d["opening_hours"][2]["open_now"]
                    ELSE Str("Unknown")

\* C5 as stated: with any subset of the optional fields absent,
\* format_place_info does not raise and returns exactly the keys of the
\* output shape, each holding the record's value or its sentinel.
C5_ValueOrSentinel ==
    (fpc # "idle" /\ OnlyAbsent(place)) =>
        /\ fpc = "returned"
        /\ ShapeButPhotos(formatted[1], place[2])
        /\ \/ formatted[1].photos = Bool(FALSE)
           \/ /\ "photos" \in DOMAIN place[2]
              /\ formatted[1].photos = place[2]["photos"]

\* C5 as amended: the same, except that photos holds True when the record
\* has a non-empty photos list and False otherwise (never the list itself).
C5_ValueSentinelOrFlag ==
    (fpc # "idle" /\ OnlyAbsent(place)) =>
        /\ fpc = "returned"
        /\ ShapeButPhotos(formatted[1], place[2])
        /\ formatted[1].photos =
              Bool("photos" \in DOMAIN place[2] /\ place[2]["photos"][2] # <<>>)

C5_Witness ==
    /\ fpc = "returned"
    /\ DOMAIN place[2] = {"rating", "geometry", "opening_hours", "photos"}
    /\ place[2]["photos"] = List(<<"photo_ref">>)
    /\ HasCoord(place[2], "lng") /\ ~HasCoord(place[2], "lat")
    /\ place[2]["opening_hours"] = EmptyDict
    /\ formatted[1].name = Str("N/A")
    /\ formatted[1].geometry.lat = Str("N/A")
    /\ formatted[1].geometry.lng = Num(-122)
    /\ formatted[1].open_now = Str("Unknown")

\* format_place_info raises on a record whose geometry is null
FormatRaised == fpc = "raised"

(***************************************************************************)
(* Claims about the loader of jsontoexcel.py.                              *)
(***************************************************************************)
StemsOf(d) == {d[i][1] : i \in 1..Len(d)}
DocAt(d, stem) == d[CHOOSE i \in 1..Len(d) : d[i][1] = stem][2]
\* the positions of paths whose file opens and parses
LoadedAt(paths) == {i \in 1..Len(paths) : Files(fs)[paths[i]].state = "ok"}

\* C6: load_multiple_json_files goes through every path in order: a path
\* that is missing, malformed or fails otherwise adds no entry and stops
\* nothing, every path that loads ends up in json_data under its stem (the
\* last such path winning a stem), entries of other stems are untouched, and
\* the call returns True exactly when some path of this call loaded.
C6_LoadSkipsFailures ==
    [][\A paths \in PathLists(DOMAIN Files(fs)) :
        (last'.op = "load_multiple_json_files" /\ load_multiple_json_files(paths)) =>
            LET ok == LoadedAt(paths)
                got == {paths[i].stem : i \in ok}
            IN /\ last'.ret = (ok # {})
               /\ last'.tried = Len(paths)
               /\ last'.loaded = Cardinality(ok)
               /\ StemsOf(json_data') = StemsOf(json_data) \cup got
               /\ Len(json_data') = Cardinality(StemsOf(json_data'))
               /\ \A i \in ok :
                     (\A j \in ok : j > i => paths[j].stem # paths[i].stem) =>
                         DocAt(json_data', paths[i].stem) = Files(fs)[paths[i]].doc
               /\ \A k \in 1..Len(json_data) :
                     /\ json_data'[k][1] = json_data[k][1]
                     /\ json_data[k][1] \notin got => json_data'[k] = json_data[k]]_vars

C6_Witness ==
    /\ fs = "faulty"
    /\ last.op = "load_multiple_json_files"
    /\ last.ret
    /\ last.tried = 3
    /\ last.loaded = 1
    /\ StemsOf(json_data) = {"e"}

\* C11: for every list of paths given to load_multiple_json_files on a fresh
\* converter (no call made yet, json_data empty), paths of different
\* directories that share a stem included, the number of entries of
\* json_data after the call equals the number of files the call reports as
\* loaded, so that no loaded file is missing from what combine_json_data
\* reads.
C11_EntriesEqualLoaded ==
    [][\A paths \in PathLists(DOMAIN Files(fs)) :
        (/\ last.op = "none"
         /\ json_data = <<>>
         /\ last'.op = "load_multiple_json_files"
         /\ load_multiple_json_files(paths)) =>
            /\ Len(json_data') = last'.loaded
            /\ \A i \in LoadedAt(paths) :
                  \E k \in 1..Len(json_data') :
                      json_data'[k] = <<paths[i].stem, Files(fs)[paths[i]].doc>>]_vars

(***************************************************************************)
(* Claims about combine_json_data.  The rows a document stands for are     *)
(* told here from its shape, and each row of the table is held against the *)
(* record it came from.                                                    *)
(***************************************************************************)
FirstListField(doc) ==
    doc[2][CHOOSE i \in 1..Len(doc[2]) :
              /\ doc[2][i][2][1] = "list"
              /\ \A j \in 1..(i - 1) : doc[2][j][2][1] # "list"][2]
HasListField(doc) == \E i \in 1..Len(doc[2]) : doc[2][i][2][1] = "list"

\* the records a document yields, by shape
RecordsOf(doc) ==
    CASE doc[1] = "list" -> doc[2]
      [] doc[1] = "dict" /\ HasListField(doc) -> FirstListField(doc)[2]
      [] doc[1] = "dict" /\ ~HasListField(doc) -> <<doc>>
      [] OTHER -> <<>>
RowCount(doc) == Len(RecordsOf(doc))
Yields(doc) == doc[1] \in {"list", "dict"}

RECURSIVE SourcesFrom(_)
SourcesFrom(d) ==
    IF d = <<>> THEN <<>>
    ELSE [i \in 1..RowCount(Head(d)[2]) |->
             [stem |-> Head(d)[1], record |-> RecordsOf(Head(d)[2])[i]]]
         \o SourcesFrom(Tail(d))
\* for each row of the combined table, in order: its file and its record
Sources == SourcesFrom(json_data)

\* the fields of a record, nested objects by their dotted names
FieldsOf(record) == Range(Keys(Flatten(record[2], "")))
ValueOf(record, c) == Lookup(Flatten(record[2], ""), c)
SourceColumn == IF last.add_source THEN {"source_file"} ELSE {}

Combined == last.op = "combine_json_data" /\ last.ret
Table == combined_df[1]

\* C7: after a successful combine_json_data every row has a cell for every
\* column of the union of the per-file column sets, a cell whose field was
\* absent in the row's record holds "", and with add_source_column every
\* row's source_file is the stem of its file; a.json = [{"x":1}] and
\* b.json = [{"y":2}] give {x:1, y:"", source_file:"a"},
\* {x:"", y:2, source_file:"b"}.
C7_UnifiedColumns ==
    Combined =>
        /\ Len(Table.rows) = Len(Sources)
        /\ Range(Table.columns) =
              UNION {FieldsOf(Sources[i].record) : i \in 1..Len(Sources)}
              \cup SourceColumn
        /\ \A i \in 1..Len(Table.rows) :
              /\ DOMAIN Table.rows[i] = Range(Table.columns)
              /\ \A c \in Range(Table.columns) \ SourceColumn :
                    c \notin FieldsOf(Sources[i].record) => Table.rows[i][c] = Str("")
              /\ last.add_source => Table.rows[i]["source_file"] = Str(Sources[i].stem)
        /\ (json_data = << <<"a", DocA>>, <<"b", DocB>> >> /\ last.add_source) =>
              Table.rows = <<[x |-> Num(1), y |-> Str(""), source_file |-> Str("a")],
                             [x |-> Str(""), y |-> Num(2), source_file |-> Str("b")]>>

C7_Witness ==
    /\ Combined
    /\ last.add_source
    /\ json_data = << <<"a", DocA>>, <<"b", DocB>> >>
    /\ Table.rows[1]["y"] = Str("")
    /\ Table.rows[2]["source_file"] = Str("b")

RECURSIVE TotalRows(_)
TotalRows(d) == IF d = <<>> THEN 0 ELSE RowCount(Head(d)[2]) + TotalRows(Tail(d))

\* C8: combine_json_data picks the rows of each document by its shape: one
\* per element of a list; one per element of the first list-valued field of
\* a mapping that has one, and nothing from its other fields; one for a
\* mapping without a list-valued field; none for any other shape, which is
\* skipped.  {"k": [{"a":1},{"a":2}]} yields 2 rows.
C8_RowsByShape ==
    /\ last.op = "combine_json_data" =>
          (last.ret <=> \E i \in 1..Len(json_data) : Yields(json_data[i][2]))
    /\ Combined =>
          /\ Len(Table.rows) = TotalRows(json_data)
          /\ \A i \in 1..Len(Table.rows) :
                \A c \in Range(Table.columns) \ SourceColumn :
                    Table.rows[i][c] =
                        IF c \in FieldsOf(Sources[i].record)
                           /\ ValueOf(Sources[i].record, c) # Null
                        THEN ValueOf(Sources[i].record, c)
                        ELSE Str("")
          /\ (\E i \in 1..Len(json_data) : json_data[i][2] = DocK /\ Len(json_data) = 1)
                => Len(Table.rows) = 2

C8_Witness ==
    /\ Combined
    /\ fs = "shapes"
    /\ StemsOf(json_data) = {"m", "c", "n"}
    /\ Len(Table.rows) = 2
    /\ "m" \notin Range(Table.columns)
    /\ "p.q" \in Range(Table.columns)

\* C9: when load_from_directory matches no file on a fresh converter it
\* returns False, and as long as only combine_json_data and the two save
\* operations follow, each of them returns False, combined_df stays None and
\* no output file is written.
C9_EmptyDirectoryFails ==
    zero_dir_run =>
        /\ last.op \in {"load_from_directory", "combine_json_data",
                        "save_to_excel_simple", "save_to_excel_styled"}
        /\ last.ret = FALSE
        /\ combined_df = None
        /\ DOMAIN written = {}

C9_Witness ==
    /\ zero_dir_run
    /\ last.op = "save_to_excel_styled"

====
